---- MODULE Spec2Model ----
\* Model of the impact simulator: src/main.py (start-up: model file, API) and
\* src/app/services/simulation_engine.py (classifier load, predict_pha_risk,
\* calculate_damage_from_pair_model).
EXTENDS Integers, Sequences, FiniteSets, TLC

\* ---------------------------------------------------------------------------
\* Floating point.  The code computes with Python floats and NumPy float64
\* scalars.  They are modelled by a decimal floating-point format with the
\* same special values: a value is a record [k, s, m, e] of kind k ("fin",
\* "inf", "nan"), sign s, mantissa m (0, or three decimal digits) and
\* exponent e, standing for s * m * 10^e.  Every operation rounds its result
\* to the format (to nearest, ties to even), overflows to an infinity above
\* the float64 range and underflows to zero below it.  A fourth kind, "exc",
\* stands for a Python exception raised while evaluating the expression; it
\* is absorbing, as the exception leaves the try block at that point.

\* Mantissas have three decimal digits: MantLo <= m <= MantHi.
MantLo == 100
MantHi == 999
\* float64: the largest finite value is about 1.8 * 10^308, the smallest
\* positive one about 4.9 * 10^-324.
MaxExp10 == 308
MinExp10 == -324

NaN == [k |-> "nan", s |-> 1, m |-> 0, e |-> 0]
Exc == [k |-> "exc", s |-> 1, m |-> 0, e |-> 0]
Zero == [k |-> "fin", s |-> 1, m |-> 0, e |-> 0]
Inf(s) == [k |-> "inf", s |-> s, m |-> 0, e |-> 0]
Fin(s, m, e) == [k |-> "fin", s |-> s, m |-> m, e |-> e]

IsExc(a) == a.k = "exc"
IsNaN(a) == a.k = "nan"
IsInf(a) == a.k = "inf"
IsFin(a) == a.k = "fin"
IsZero(a) == a.k = "fin" /\ a.m = 0
\* -1, 0 or 1 for a finite or infinite value
Sign(a) == IF IsZero(a) THEN 0 ELSE a.s

RECURSIVE Pow10(_)
Pow10(n) == IF n = 0 THEN 1 ELSE 10 * Pow10(n - 1)

\* number of decimal digits of n >= 1 (n < 2^31)
RECURSIVE NumDigits(_)
NumDigits(n) == IF n < 10 THEN 1 ELSE 1 + NumDigits(n \div 10)

\* n / p rounded to the nearest integer, ties to even
RoundDiv(n, p) ==
    LET q == n \div p
        r == n % p
    IN  IF 2 * r > p \/ (2 * r = p /\ q % 2 = 1) THEN q + 1 ELSE q

\* The value s * n * 10^e (n >= 0) rounded to the format.
Normalize(s, n, e) ==
    IF n = 0 THEN Zero
    ELSE LET d == NumDigits(n)
             n1 == IF d > 3 THEN RoundDiv(n, Pow10(d - 3)) ELSE n * Pow10(3 - d)
             e1 == e + d - 3
             \* rounding 9995.. up gives 1000
             m2 == IF n1 > MantHi THEN MantLo ELSE n1
             e2 == IF n1 > MantHi THEN e1 + 1 ELSE e1
         IN  IF e2 + 2 > MaxExp10 THEN Inf(s)
             ELSE IF e2 + 2 < MinExp10 THEN Zero
             ELSE Fin(s, m2, e2)

Neg(a) == IF a.k \in {"fin", "inf"} /\ ~IsZero(a) THEN [a EXCEPT !.s = -a.s] ELSE a

\* a * b
Mul(a, b) ==
    IF IsExc(a) \/ IsExc(b) THEN Exc
    ELSE IF IsNaN(a) \/ IsNaN(b) THEN NaN
    ELSE IF IsInf(a) \/ IsInf(b)
         THEN IF IsZero(a) \/ IsZero(b) THEN NaN ELSE Inf(a.s * b.s)
    ELSE Normalize(a.s * b.s, a.m * b.m, a.e + b.e)

\* a + b
Add(a, b) ==
    IF IsExc(a) \/ IsExc(b) THEN Exc
    ELSE IF IsNaN(a) \/ IsNaN(b) THEN NaN
    ELSE IF IsInf(a) /\ IsInf(b) THEN (IF a.s = b.s THEN a ELSE NaN)
    ELSE IF IsInf(a) THEN a
    ELSE IF IsInf(b) THEN b
    ELSE IF IsZero(a) THEN b
    ELSE IF IsZero(b) THEN a
    ELSE LET hi == IF a.e >= b.e THEN a ELSE b
             lo == IF a.e >= b.e THEN b ELSE a
             diff == hi.e - lo.e
         IN  IF diff > 5 THEN hi
             ELSE LET n == hi.s * hi.m * Pow10(diff) + lo.s * lo.m
                  IN  IF n >= 0 THEN Normalize(1, n, lo.e)
                      ELSE Normalize(-1, -n, lo.e)

Sub(a, b) == Add(a, Neg(b))

\* a / b on NumPy scalars: a zero divisor gives an infinity or NaN (with a
\* RuntimeWarning), never an exception.
NpDiv(a, b) ==
    IF IsExc(a) \/ IsExc(b) THEN Exc
    ELSE IF IsNaN(a) \/ IsNaN(b) THEN NaN
    ELSE IF IsInf(a) THEN (IF IsInf(b) THEN NaN
                           ELSE Inf(a.s * (IF IsZero(b) THEN 1 ELSE b.s)))
    ELSE IF IsInf(b) THEN Zero
    ELSE IF IsZero(b) THEN (IF IsZero(a) THEN NaN ELSE Inf(a.s))
    ELSE Normalize(a.s * b.s, (a.m * 1000000) \div b.m, a.e - b.e - 6)

\* a / b on Python floats: ZeroDivisionError for a zero divisor.
PyDiv(a, b) ==
    IF IsExc(a) \/ IsExc(b) THEN Exc
    ELSE IF IsZero(b) THEN Exc
    ELSE NpDiv(a, b)

\* a > b; any comparison with NaN is false.
Gt(a, b) ==
    IF IsNaN(a) \/ IsNaN(b) \/ IsExc(a) \/ IsExc(b) THEN FALSE
    ELSE IF IsInf(a) THEN (a.s = 1 /\ ~(IsInf(b) /\ b.s = 1))
    ELSE IF IsInf(b) THEN b.s = -1
    ELSE IF Sign(a) # Sign(b) THEN Sign(a) > Sign(b)
    ELSE IF Sign(a) = 0 THEN FALSE
    ELSE IF Sign(a) = 1 THEN (a.e > b.e \/ (a.e = b.e /\ a.m > b.m))
    ELSE (a.e < b.e \/ (a.e = b.e /\ a.m < b.m))

Lt(a, b) == Gt(b, a)
Ge(a, b) == Gt(a, b) \/ (a.k \in {"fin", "inf"} /\ a = b)

\* largest r in lo..hi with r^n <= x (n = 2 or 3), by bisection; lo^n <= x
RECURSIVE IRoot(_, _, _, _)
IRoot(x, n, lo, hi) ==
    IF lo = hi THEN lo
    ELSE LET mid == (lo + hi + 1) \div 2
             p == IF n = 2 THEN mid * mid ELSE mid * mid * mid
         IN  IF p <= x THEN IRoot(x, n, mid, hi) ELSE IRoot(x, n, lo, mid - 1)

\* square root of a finite a > 0
SqrtPos(a) ==
    LET j == IF (a.e - 2) % 2 = 0 THEN 2 ELSE 3
    IN  Fin(1, IRoot(a.m * Pow10(j), 2, MantLo, MantHi), (a.e - j) \div 2)

\* cube root of a finite a > 0
CbrtPos(a) ==
    LET j == CHOOSE i \in {4, 5, 6} : (a.e - i) % 3 = 0
    IN  Fin(1, IRoot(a.m * Pow10(j), 3, MantLo, MantHi), (a.e - j) \div 3)

One == Fin(1, 100, -2)

\* np.sqrt(a): NaN for a negative argument (RuntimeWarning), no exception
NpSqrt(a) ==
    IF IsExc(a) THEN Exc
    ELSE IF IsNaN(a) THEN NaN
    ELSE IF IsZero(a) THEN Zero
    ELSE IF a.s = -1 THEN NaN
    ELSE IF IsInf(a) THEN a
    ELSE SqrtPos(a)

\* a ** y for a NumPy float64 a and a non-integer y: root is the positive
\* power |y| of a finite a > 0 (CbrtPos for 1/3), neg says whether y < 0.
\* A negative finite base gives NaN, 0 ** negative gives inf, both with a
\* RuntimeWarning only; an infinite base of either sign gives inf or 0.
NpPowFrac(a, root, neg) ==
    IF IsExc(a) THEN Exc
    ELSE IF IsNaN(a) THEN NaN
    ELSE IF IsZero(a) THEN (IF neg THEN Inf(1) ELSE Zero)
    ELSE IF IsInf(a) THEN (IF neg THEN Zero ELSE Inf(1))
    ELSE IF a.s = -1 THEN NaN
    ELSE IF neg THEN NpDiv(One, root) ELSE root

\* E ** (1/3), E ** (-1/3), E ** (1/6) on float64
NpPowThird(a) == NpPowFrac(a, IF IsFin(a) /\ Sign(a) = 1 THEN CbrtPos(a) ELSE NaN, FALSE)
NpPowNegThird(a) == NpPowFrac(a, IF IsFin(a) /\ Sign(a) = 1 THEN CbrtPos(a) ELSE NaN, TRUE)
NpPowSixth(a) == NpPowFrac(a, IF IsFin(a) /\ Sign(a) = 1 THEN CbrtPos(SqrtPos(a)) ELSE NaN, FALSE)

\* a ** 2 and a ** 3 on Python floats: OverflowError when a finite base
\* overflows
PyPowInt(a, n) ==
    LET sq == Mul(a, a)
        r == IF n = 2 THEN sq ELSE Mul(sq, a)
    IN  IF IsFin(a) /\ IsInf(r) THEN Exc ELSE r

\* 5 ** -0.449 = exp(-0.449 * ln 5) = 0.4855
FiveToNeg0449 == Fin(1, 486, -3)
Five == Fin(1, 500, -2)

\* h ** -0.449 on a Python float.  h is assigned one of the literals 5.0 and
\* 0.0 only (lines 84 and 86); 0.0 ** -0.449 raises ZeroDivisionError.
PyPowNeg0449(h) ==
    IF IsExc(h) THEN Exc
    ELSE IF IsZero(h) THEN Exc
    ELSE IF h = Five THEN FiveToNeg0449
    ELSE NaN

\* round(a, 2): to two decimals, ties to even; NaN and the infinities are
\* returned as they are, no exception
Round2(a) ==
    IF ~IsFin(a) \/ IsZero(a) THEN a
    ELSE IF a.e >= -2 THEN a
    ELSE IF -2 - a.e > 3 THEN Zero
    ELSE Normalize(a.s, RoundDiv(a.m, Pow10(-2 - a.e)), -2)

\* the builtin max(a, b): b if b > a, otherwise a (a NaN first argument stays)
PyMax(a, b) == IF Gt(b, a) THEN b ELSE a

\* ---------------------------------------------------------------------------
\* calculate_damage_from_pair_model.  Its arguments are a record p with the
\* parameters' names.

\* the literals of the function
Thousand == Fin(1, 100, 1)
Two == Fin(1, 200, -2)
Half == Fin(1, 500, -3)
FourThirds == PyDiv(Fin(1, 400, -2), Fin(1, 300, -2))
Pi == Fin(1, 314, -2)
JoulesPerMegaton == Fin(1, 418, 13)
AirburstDiameterKm == Fin(1, 500, -4)
AirburstAltitudeKm == Five
C209 == Fin(1, 209, -2)
C508 == Fin(1, 508, -2)
C042 == Fin(1, 420, -3)

\* the angles the model calls the function with, in degrees
Deg0 == Zero
Deg30 == Fin(1, 300, -1)
Deg90 == Fin(1, 900, -1)
DegMinus30 == Fin(-1, 300, -1)

\* np.sin(np.radians(a)), a float64, tabulated on these angles
SinRadians(a) ==
    CASE a = Deg0 -> Zero
      [] a = Deg30 -> Fin(1, 500, -3)
      [] a = Deg90 -> One
      [] a = DegMinus30 -> Fin(-1, 500, -3)

raio_m(p) == PyDiv(Mul(p.diameter_km, Thousand), Two)
velocidade_m_s(p) == Mul(p.velocity_km_s, Thousand)
volume_m3(p) == Mul(Mul(FourThirds, Pi), PyPowInt(raio_m(p), 3))
massa_kg(p) == Mul(p.densidade_rho, volume_m3(p))
energia_cinetica_j(p) ==
    Mul(Mul(Mul(Half, massa_kg(p)), PyPowInt(velocidade_m_s(p), 2)),
        SinRadians(p.impact_angle))
energia_E_megatons(p) == NpDiv(energia_cinetica_j(p), JoulesPerMegaton)

\* the regime test written with <= : a 50 m object becomes an airburst
altitude_h_km_le(p) ==
    IF ~Gt(p.diameter_km, AirburstDiameterKm) /\ ~IsNaN(p.diameter_km)
    THEN AirburstAltitudeKm ELSE Zero

\* lines 83-86: any comparison with a NaN diameter is false
altitude_h_km(p) ==
    IF Lt(p.diameter_km, AirburstDiameterKm) THEN AirburstAltitudeKm ELSE Zero

\* the two blast formulas, lines 93 and 95
AirburstBlast(h, E) ==
    Add(Mul(Mul(Mul(C209, PyPowNeg0449(h)), PyPowInt(h, 2)), NpPowNegThird(E)),
        Mul(C508, NpPowThird(E)))
GroundBlast(E) == Mul(C508, NpPowThird(E))

raio_blast_km(p) ==
    LET E == energia_E_megatons(p)
        h == altitude_h_km(p)
    IN  IF Gt(h, Zero) THEN AirburstBlast(h, E) ELSE GroundBlast(E)

Zi(p) == Mul(C042, NpPowSixth(energia_E_megatons(p)))
r_sq(p) == NpDiv(Mul(p.eficiencia_eta, energia_E_megatons(p)),
                 Mul(Mul(Two, Pi), Zi(p)))
h_sq(p) == PyPowInt(altitude_h_km(p), 2)

\* the thermal radius without its clamp
raio_thermal_km_noclamp(p) == NpSqrt(Sub(r_sq(p), h_sq(p)))

raio_thermal_km(p) ==
    IF Gt(r_sq(p), h_sq(p)) THEN NpSqrt(Sub(r_sq(p), h_sq(p))) ELSE Zero

\* what a call returns: None, or the dictionary of line 106
None == [type |-> "None"]
Results(p) ==
    [type |-> "dict",
     energia_megatons |-> Round2(energia_E_megatons(p)),
     altitude_explosao_km |-> Round2(altitude_h_km(p)),
     raio_dano_explosao_km |-> Round2(raio_blast_km(p)),
     raio_dano_termico_km |-> Round2(raio_thermal_km(p)),
     raio_dano_final_km |-> Round2(PyMax(raio_blast_km(p), raio_thermal_km(p))),
     kinetic_energy_joules |-> energia_cinetica_j(p)]

\* an exception anywhere in the try block (lines 66-115) reaches line 116
Raises(p) ==
    \/ IsExc(energia_E_megatons(p))
    \/ IsExc(raio_blast_km(p))
    \/ IsExc(r_sq(p))
    \/ IsExc(h_sq(p))
    \/ IsExc(raio_thermal_km(p))

calculate_damage_from_pair_model(p) == IF Raises(p) THEN None ELSE Results(p)

\* ---------------------------------------------------------------------------
\* predict_pha_risk.  A dictionary is the sequence of its <<key, value>>
\* items in insertion order; an argument that is no mapping has type "other".

features_order ==
    <<"absolute_magnitude_h", "diameter_km_avg", "velocity_km_s",
      "miss_distance_km", "kinetic_energy_joules">>

Keys(items) == {items[i][1] : i \in 1..Len(items)}
Get(items, key) == items[CHOOSE i \in 1..Len(items) : items[i][1] = key][2]

\* a frame filled by position, from the dictionary's values in their order
DataFrame_positional(features_dict, columns) ==
    IF features_dict.type # "dict" THEN [raises |-> TRUE, rows |-> <<>>]
    ELSE [raises |-> FALSE,
          rows |-> <<[i \in 1..Len(columns) |->
                        IF i <= Len(features_dict.items)
                        THEN features_dict.items[i][2] ELSE NaN]>>]

\* pd.DataFrame([features_dict], columns=features_order): one row, the
\* columns picked by name, NaN for a missing key, other keys dropped; a
\* ValueError (raises) for a row that is no mapping.
DataFrame(features_dict, columns) ==
    IF features_dict.type # "dict" THEN [raises |-> TRUE, rows |-> <<>>]
    ELSE [raises |-> FALSE,
          rows |-> <<[i \in 1..Len(columns) |->
                        IF columns[i] \in Keys(features_dict.items)
                        THEN Get(features_dict.items, columns[i]) ELSE NaN]>>]

\* bool(prediction[0]) for the prediction predict returned: "True" or
\* "False", or "raise": IndexError on an empty prediction, ValueError on an
\* entry that is itself an array of several values ("array")
BoolOfFirst(prediction) ==
    IF Len(prediction) = 0 THEN "raise"
    ELSE IF prediction[1] = "array" THEN "raise"
    ELSE prediction[1]

Bool(b) == [type |-> "bool", val |-> b]
Raise == [type |-> "raise"]

\* predict_pha_risk without its try block: the classifier's exception leaves
\* the function
predict_pha_risk_no_try(model, features_dict, outcome) ==
    LET input_df == DataFrame(features_dict, features_order)
    IN  IF model = "None" THEN [ret |-> Bool(FALSE), input_df |-> <<>>]
        ELSE IF input_df.raises THEN [ret |-> Raise, input_df |-> <<>>]
        ELSE IF outcome.raises THEN [ret |-> Raise, input_df |-> input_df.rows]
        ELSE IF BoolOfFirst(outcome.prediction) = "raise"
             THEN [ret |-> Raise, input_df |-> input_df.rows]
        ELSE [ret |-> Bool(BoolOfFirst(outcome.prediction) = "True"),
              input_df |-> input_df.rows]

\* predict_pha_risk(features_dict) with the module's classifier `model` and
\* `outcome` what model.predict does when called: it raises, or returns a
\* prediction.  ret is what the call returns (Raise for an exception that
\* leaves it), input_df the rows handed to predict (<<>> when not called).
predict_pha_risk(model, features_dict, outcome) ==
    LET input_df == DataFrame(features_dict, features_order)
    IN  IF model = "None" THEN [ret |-> Bool(FALSE), input_df |-> <<>>]
        ELSE IF input_df.raises THEN [ret |-> Bool(FALSE), input_df |-> <<>>]
        ELSE IF outcome.raises THEN [ret |-> Bool(FALSE), input_df |-> input_df.rows]
        ELSE IF BoolOfFirst(outcome.prediction) = "raise"
             THEN [ret |-> Bool(FALSE), input_df |-> input_df.rows]
        ELSE [ret |-> Bool(BoolOfFirst(outcome.prediction) = "True"),
              input_df |-> input_df.rows]

\* load_model without the pickle fallback
load_model_joblib_only(joblib, pickle) == joblib

\* load_model(model_path): joblib and pickle say what joblib.load and
\* pickle.load do, "raise" or the object they return; the result is the
\* object returned, or "raise" for the RuntimeError of line 27.
load_model(joblib, pickle) ==
    IF joblib # "raise" THEN joblib
    ELSE IF pickle # "raise" THEN pickle
    ELSE "raise"

\* lines 29-34
LoadedClassifier(joblib, pickle) ==
    IF load_model(joblib, pickle) = "raise" THEN "None" ELSE load_model(joblib, pickle)

\* ---------------------------------------------------------------------------
\* main.py.  download_from_drive(file_id, dest_path): fault is the step that
\* raises ("none" when none does), token whether the first response carries
\* a download_warning cookie.  Every exception is caught (lines 43-48).
DownloadFaults == {"none", "mkdir", "get", "status", "confirm_get", "confirm_status", "write"}

\* the fault happens only if its step is executed: the second request is
\* made only with a token
Happens(fault, token) ==
    /\ fault # "none"
    /\ fault \in {"confirm_get", "confirm_status"} => token

download_from_drive(fault, token) == ~Happens(fault, token)

\* the model file after the call: open(dest_path, "wb") creates it before
\* the chunks are written
FileAfterDownload(fault, token) ==
    IF ~Happens(fault, token) THEN "complete"
    ELSE IF fault = "write" THEN "partial"
    ELSE "absent"

\* ensure_model dropping what download_from_drive returned
ensure_model_ignores_download(exists, fault, token) == TRUE

\* ensure_model(model_path, file_id), lines 54-61
ensure_model(exists, fault, token) ==
    IF exists THEN TRUE ELSE download_from_drive(fault, token)

\* ---------------------------------------------------------------------------
\* The inputs the model calls the functions with.

Diameters ==
    {Fin(1, 300, -4), AirburstDiameterKm, Fin(1, 140, -3), Fin(1, 200, 1),
     Fin(1, 100, 98), Fin(1, 100, 198), NaN}
Velocities == {Fin(1, 190, -1)}
Angles == {Deg0, Deg30, Deg90, DegMinus30}
Densities == {Fin(1, 300, 1)}
Efficiencies == {Fin(1, 300, -3), One}

ImpactParameters ==
    [diameter_km : Diameters, velocity_km_s : Velocities, impact_angle : Angles,
     densidade_rho : Densities, eficiencia_eta : Efficiencies]

FeatureItems ==
    << <<"absolute_magnitude_h", Fin(1, 221, -1)>>,
       <<"diameter_km_avg", Fin(1, 140, -3)>>,
       <<"velocity_km_s", Fin(1, 190, -1)>>,
       <<"miss_distance_km", Fin(1, 100, 4)>>,
       <<"kinetic_energy_joules", Fin(1, 773, 15)>> >>

Reverse(seq) == [i \in 1..Len(seq) |-> seq[Len(seq) + 1 - i]]
Dict(items) == [type |-> "dict", items |-> items]

\* the five features in the classifier's order, in reverse order, with one
\* more key in front, with miss_distance_km missing; and a float
FeatureDicts ==
    {Dict(FeatureItems),
     Dict(Reverse(FeatureItems)),
     Dict(<< <<"name", Zero>> >> \o Reverse(FeatureItems)),
     Dict(SelectSeq(FeatureItems, LAMBDA it : it[1] # "miss_distance_km")),
     [type |-> "other", items |-> <<>>]}

Predictions ==
    {<<>>, <<"True">>, <<"False">>, <<"False", "True">>, <<"True", "False">>,
     <<"array">>}
PredictOutcomes ==
    {[raises |-> TRUE, prediction |-> <<>>]}
    \cup {[raises |-> FALSE, prediction |-> q] : q \in Predictions}

LoadOutcomes == {"raise", "clf_a", "clf_b"}

\* calculate_damage_from_pair_model on these inputs, evaluated once
DamageTable == {<<p, calculate_damage_from_pair_model(p)>> : p \in ImpactParameters}
DamageOf(p) == (CHOOSE row \in DamageTable : row[1] = p)[2]

\* ---------------------------------------------------------------------------
\* The process.
VARIABLES
    pc,                     \* where main.py is
    model_file,             \* ml_models/pha_classifier.pkl: absent, partial, complete
    ensured,                \* what ensure_model returned: "unset", "True", "False"
    downloads,              \* calls of download_from_drive
    download,               \* the last one: the fault met, the token, what it returned
    exit_status,            \* "running", or the status the process exited with
    app,                    \* the FastAPI application: "none", "created", "routed"
    PHA_CLASSIFIER_MODEL,   \* "unloaded" before the engine module is imported
    loaded,                 \* what joblib.load and pickle.load did at import
    call,                   \* the last call of the engine and its arguments
    ret,                    \* what it returned
    input_df                \* the rows it handed to the classifier's predict

vars ==
    <<pc, model_file, ensured, downloads, download, exit_status, app, PHA_CLASSIFIER_MODEL,
      loaded, call, ret, input_df>>

NoCall == [fn |-> "none"]
Unset == [type |-> "unset"]

Init ==
    /\ pc = "ensure_model"
    /\ model_file \in {"absent", "partial", "complete"}
    /\ ensured = "unset"
    /\ downloads = 0
    /\ download = [fault |-> "none", token |-> FALSE, ret |-> "unset"]
    /\ exit_status = "running"
    /\ app = "none"
    /\ PHA_CLASSIFIER_MODEL = "unloaded"
    /\ loaded = [joblib |-> "unset", pickle |-> "unset"]
    /\ call = NoCall
    /\ ret = Unset
    /\ input_df = <<>>

\* main.py line 68, the call: the file is there (path.exists())
EnsureModelExists ==
    /\ pc = "ensure_model"
    /\ model_file # "absent"
    /\ ensured' = (IF ensure_model(TRUE, "none", FALSE) THEN "True" ELSE "False")
    /\ pc' = "ensured"
    /\ UNCHANGED <<model_file, downloads, download, exit_status, app, PHA_CLASSIFIER_MODEL,
                   loaded, call, ret, input_df>>

\* main.py line 68, the call: the file is absent and is downloaded
EnsureModelDownload(fault, token) ==
    /\ pc = "ensure_model"
    /\ model_file = "absent"
    /\ ensured' = (IF ensure_model(FALSE, fault, token) THEN "True" ELSE "False")
    /\ downloads' = downloads + 1
    /\ download' = [fault |-> fault, token |-> token,
                    ret |-> IF download_from_drive(fault, token) THEN "True" ELSE "False"]
    /\ model_file' = FileAfterDownload(fault, token)
    /\ pc' = "ensured"
    /\ UNCHANGED <<exit_status, app, PHA_CLASSIFIER_MODEL, loaded, call, ret,
                   input_df>>

\* main.py lines 68-70: exit(1)
ExitOnFailure ==
    /\ pc = "ensured"
    /\ ensured = "False"
    /\ exit_status' = "1"
    /\ pc' = "exited"
    /\ UNCHANGED <<model_file, ensured, downloads, download, app, PHA_CLASSIFIER_MODEL,
                   loaded, call, ret, input_df>>

\* main.py line 75 imports the endpoints and with them the engine module,
\* whose lines 29-34 load the classifier; without a complete file both
\* loaders raise
ImportEngine(joblib, pickle) ==
    /\ pc = "ensured"
    /\ ensured = "True"
    /\ model_file # "complete" => joblib = "raise" /\ pickle = "raise"
    /\ PHA_CLASSIFIER_MODEL' = LoadedClassifier(joblib, pickle)
    /\ loaded' = [joblib |-> joblib,
                  pickle |-> IF joblib = "raise" THEN pickle ELSE "unset"]
    /\ pc' = "imported"
    /\ UNCHANGED <<model_file, ensured, downloads, download, exit_status, app, call, ret,
                   input_df>>

\* main.py lines 77-81
CreateApp ==
    /\ pc = "imported"
    /\ app' = "created"
    /\ pc' = "created"
    /\ UNCHANGED <<model_file, ensured, downloads, download, exit_status,
                   PHA_CLASSIFIER_MODEL, loaded, call, ret, input_df>>

\* main.py line 83
IncludeRouter ==
    /\ pc = "created"
    /\ app' = "routed"
    /\ pc' = "serving"
    /\ UNCHANGED <<model_file, ensured, downloads, download, exit_status,
                   PHA_CLASSIFIER_MODEL, loaded, call, ret, input_df>>

\* a call of predict_pha_risk
PredictCall(features_dict, outcome) ==
    /\ pc = "serving"
    /\ LET r == predict_pha_risk(PHA_CLASSIFIER_MODEL, features_dict, outcome)
       IN  /\ ret' = r.ret
           /\ input_df' = r.input_df
    /\ call' = [fn |-> "predict_pha_risk", features_dict |-> features_dict,
                outcome |-> outcome]
    /\ UNCHANGED <<pc, model_file, ensured, downloads, download, exit_status, app,
                   PHA_CLASSIFIER_MODEL, loaded>>

\* a call of calculate_damage_from_pair_model
CalculateCall(p) ==
    /\ pc = "serving"
    /\ ret' = DamageOf(p)
    /\ input_df' = <<>>
    /\ call' = [fn |-> "calculate_damage_from_pair_model", p |-> p]
    /\ UNCHANGED <<pc, model_file, ensured, downloads, download, exit_status, app,
                   PHA_CLASSIFIER_MODEL, loaded>>

Next ==
    \/ EnsureModelExists
    \/ \E fault \in DownloadFaults, token \in BOOLEAN : EnsureModelDownload(fault, token)
    \/ ExitOnFailure
    \/ \E joblib \in LoadOutcomes, pickle \in LoadOutcomes : ImportEngine(joblib, pickle)
    \/ CreateApp
    \/ IncludeRouter
    \/ \E f \in FeatureDicts, o \in PredictOutcomes : PredictCall(f, o)
    \/ \E p \in ImpactParameters : CalculateCall(p)

Spec == Init /\ [][Next]_vars

\* ---------------------------------------------------------------------------
\* Properties.

IsCalculate == call.fn = "calculate_damage_from_pair_model"
IsPredict == call.fn = "predict_pha_risk"
ReturnedDict == IsCalculate /\ ret.type = "dict"

\* a == b on floats: false when either is NaN
FEq(a, b) == ~IsNaN(a) /\ ~IsNaN(b) /\ a = b

\* C1: whenever calculate_damage_from_pair_model returns a result, its
\* raio_dano_final_km equals the maximum of its raio_dano_explosao_km and
\* raio_dano_termico_km, and is greater than or equal to both.
C1_FinalIsMaxOfRadii ==
    ReturnedDict =>
        /\ FEq(ret.raio_dano_final_km,
               PyMax(ret.raio_dano_explosao_km, ret.raio_dano_termico_km))
        /\ Ge(ret.raio_dano_final_km, ret.raio_dano_explosao_km)
        /\ Ge(ret.raio_dano_final_km, ret.raio_dano_termico_km)

\* C2: with impact_angle = 0 (any diameter, positive velocity and density)
\* the function returns a result whose kinetic energy, energy in megatons,
\* blast radius and thermal radius are all 0.
C2_ZeroAngleZeroDamage ==
    (IsCalculate /\ call.p.impact_angle = Deg0
       /\ Gt(call.p.velocity_km_s, Zero) /\ Gt(call.p.densidade_rho, Zero)) =>
        /\ ret.type = "dict"
        /\ ret.kinetic_energy_joules = Zero
        /\ ret.energia_megatons = Zero
        /\ ret.raio_dano_explosao_km = Zero
        /\ ret.raio_dano_termico_km = Zero

\* some arithmetic step on p gave NaN or an infinity, or raised
InvalidStep(p) ==
    \E x \in {energia_cinetica_j(p), energia_E_megatons(p), raio_blast_km(p),
              Zi(p), r_sq(p), raio_thermal_km(p)} : ~IsFin(x)

\* C3: whenever an arithmetic step of calculate_damage_from_pair_model is
\* invalid (NaN, non-finite, overflow) the function returns None; a returned
\* result never has a NaN or non-finite field.
C3_InvalidArithmeticGivesNone ==
    IsCalculate =>
        /\ InvalidStep(call.p) => ret = None
        /\ ret.type = "dict" =>
             \A x \in {ret.energia_megatons, ret.altitude_explosao_km,
                       ret.raio_dano_explosao_km, ret.raio_dano_termico_km,
                       ret.raio_dano_final_km, ret.kinetic_energy_joules} : IsFin(x)

\* building the frame, predict, or reading the first entry raises
PredictionFails(features_dict, outcome) ==
    \/ features_dict.type # "dict"
    \/ outcome.raises
    \/ Len(outcome.prediction) = 0
    \/ outcome.prediction[1] = "array"

\* C4: predict_pha_risk always returns a boolean and lets no exception reach
\* its caller; it returns False when the classifier is None and when
\* building the feature row, predict, or reading the first entry raises.
C4_PredictNeverRaises ==
    IsPredict =>
        /\ ret.type = "bool"
        /\ PHA_CLASSIFIER_MODEL = "None" => ret.val = FALSE
        /\ PredictionFails(call.features_dict, call.outcome) => ret.val = FALSE

\* C4's case: a classifier is loaded, its predict raises, False is returned
C4_Witness ==
    /\ IsPredict
    /\ PHA_CLASSIFIER_MODEL \notin {"None", "unloaded"}
    /\ call.features_dict.type = "dict"
    /\ call.outcome.raises
    /\ ret = Bool(FALSE)

\* C5: a returned result has burst altitude 5.0 and the airburst blast
\* radius when diameter_km < 0.05, and otherwise (0.05 included) altitude
\* 0.0 and blast radius 5.08 * E^(1/3); the airburst formula is never
\* evaluated with h = 0, where it raises: from 0.05 km on the function
\* fails only if the energy could not be computed.
C5_RegimeSelection ==
    IsCalculate =>
        LET p == call.p
            E == energia_E_megatons(p)
        IN  /\ (ret.type = "dict" /\ Lt(p.diameter_km, AirburstDiameterKm)) =>
                  /\ ret.altitude_explosao_km = Five
                  /\ ret.raio_dano_explosao_km = Round2(AirburstBlast(Five, E))
            /\ (ret.type = "dict" /\ ~Lt(p.diameter_km, AirburstDiameterKm)) =>
                  /\ ret.altitude_explosao_km = Zero
                  /\ ret.raio_dano_explosao_km = Round2(Mul(C508, NpPowThird(E)))
            /\ (~Lt(p.diameter_km, AirburstDiameterKm) /\ ~IsExc(E)) =>
                  ret.type = "dict"

\* C5's case: a diameter of exactly 0.05 km is a ground impact
C5_Witness ==
    /\ ReturnedDict
    /\ call.p.diameter_km = AirburstDiameterKm
    /\ call.p.impact_angle = Deg90
    /\ ret.altitude_explosao_km = Zero
    /\ Gt(ret.raio_dano_explosao_km, Zero)

\* C6: the returned thermal radius is never negative; it is exactly 0.0
\* whenever r_sq > h_sq does not hold (r_sq <= h_sq, or r_sq NaN as at
\* E = 0), and otherwise the square root of r_sq - h_sq > 0.
C6_ThermalRadiusClamped ==
    ReturnedDict =>
        LET p == call.p
        IN  /\ ret.raio_dano_termico_km.k \in {"fin", "inf"}
            /\ Sign(ret.raio_dano_termico_km) >= 0
            /\ ~Gt(r_sq(p), h_sq(p)) => ret.raio_dano_termico_km = Zero
            /\ Gt(r_sq(p), h_sq(p)) =>
                  /\ Gt(Sub(r_sq(p), h_sq(p)), Zero)
                  /\ ret.raio_dano_termico_km = Round2(NpSqrt(Sub(r_sq(p), h_sq(p))))

\* C6's case: an airburst whose thermal footprint stays below its altitude
C6_Witness ==
    /\ ReturnedDict
    /\ IsFin(r_sq(call.p))
    /\ Gt(r_sq(call.p), Zero)
    /\ Gt(h_sq(call.p), r_sq(call.p))
    /\ ret.raio_dano_termico_km = Zero

\* C8: with a classifier loaded and a dictionary given, predict receives one
\* row of 5 columns in the order of features_order, each holding the value
\* the dictionary has under that name whatever the dictionary's key order
\* and other keys; the call returns the truth value of the first entry of
\* the prediction.
C8_FeatureRowOrder ==
    (IsPredict /\ PHA_CLASSIFIER_MODEL # "None" /\ call.features_dict.type = "dict") =>
        /\ Len(input_df) = 1
        /\ DOMAIN input_df[1] = 1..5
        /\ \A it \in Keys(call.features_dict.items) :
              \A i \in 1..5 :
                 features_order[i] = it =>
                    input_df[1][i] = Get(call.features_dict.items, it)
        /\ ~PredictionFails(call.features_dict, call.outcome) =>
              ret = Bool(call.outcome.prediction[1] = "True")

\* C8's case: the keys come in another order, with one more key, and the
\* prediction's first entry is true
C8_Witness ==
    /\ IsPredict
    /\ PHA_CLASSIFIER_MODEL \notin {"None", "unloaded"}
    /\ call.features_dict.type = "dict"
    /\ call.features_dict.items[1][1] = "name"
    /\ call.outcome.prediction = <<"True", "False">>
    /\ ret = Bool(TRUE)

\* what lines 14-34 leave in PHA_CLASSIFIER_MODEL
ExpectedClassifier ==
    IF loaded.joblib # "raise" THEN loaded.joblib
    ELSE IF loaded.pickle # "raise" THEN loaded.pickle
    ELSE "None"

\* C9: PHA_CLASSIFIER_MODEL is set once at module load, to what joblib
\* loaded or, when joblib failed, to what pickle loaded, and to None only if
\* both failed; no later call changes it, and once it is None every
\* predict_pha_risk call returns False.
C9_ClassifierSetOnce ==
    /\ [](PHA_CLASSIFIER_MODEL # "unloaded" =>
            /\ PHA_CLASSIFIER_MODEL = ExpectedClassifier
            /\ PHA_CLASSIFIER_MODEL = "None" <=>
                  (loaded.joblib = "raise" /\ loaded.pickle = "raise"))
    /\ [][PHA_CLASSIFIER_MODEL # "unloaded" =>
            PHA_CLASSIFIER_MODEL' = PHA_CLASSIFIER_MODEL]_vars
    /\ []((PHA_CLASSIFIER_MODEL = "None" /\ IsPredict) => ret = Bool(FALSE))

\* C9's case: joblib failed, pickle loaded the classifier, and calls were
\* served with it
C9_Witness ==
    /\ loaded.joblib = "raise"
    /\ loaded.pickle = "clf_b"
    /\ PHA_CLASSIFIER_MODEL = "clf_b"
    /\ IsPredict
    /\ ret = Bool(TRUE)

\* C10: the application is created and routed only after ensure_model
\* returned True; ensure_model returns True without a download when the file
\* exists and otherwise what download_from_drive returned, which is False
\* for every fault and never an exception; after False the process exits
\* with status 1 and no application.
C10_StartupOrder ==
    /\ [](app # "none" => ensured = "True")
    /\ [][(pc = "ensure_model" /\ model_file # "absent") =>
            (ensured' = "True" /\ downloads' = downloads)]_vars
    /\ []((ensured # "unset" /\ downloads > 0) =>
            /\ download.ret \in {"True", "False"}
            /\ ensured = download.ret
            /\ Happens(download.fault, download.token) => download.ret = "False")
    /\ [][(pc = "ensured" /\ ensured = "False") =>
            (exit_status' = "1" /\ app' = "none")]_vars
    /\ [](ensured = "False" => app = "none")

\* C10's case: the download failed while writing the file and the process
\* exited with status 1 before any application
C10_Witness ==
    /\ downloads = 1
    /\ download.fault = "write"
    /\ ensured = "False"
    /\ exit_status = "1"
    /\ app = "none"

====
